---- MODULE Spec2Model ----
(***************************************************************************)
(* Click-V rs-demo: a freestanding RISC-V (riscv32) guest program.         *)
(* The model covers the syscall gateway (syscall.rs), the system           *)
(* operations (system.rs), the memory-mapped display (screen.rs) and the   *)
(* orchestrating script (main.rs).  The kernel behind the trap is not part *)
(* of the guest; it is modelled twice: as an arbitrary kernel (any result  *)
(* for every trap) and as a small error-free file store.                   *)
(***************************************************************************)
EXTENDS Integers, Sequences, FiniteSets, TLC

VARIABLES pc, writing_file, socket, reading_file, image_file, n, buf, i,
          display, out, fdhist, cellw, lastw, draws,
          kmode, files, fdt, call, ret, nops

vars == <<pc, writing_file, socket, reading_file, image_file, n, buf, i,
          display, out, fdhist, cellw, lastw, draws,
          kmode, files, fdt, call, ret, nops>>

(***************************************************************************)
(* Machine words.  isize is a 32-bit signed word and is an Int here.       *)
(* usize/u32/pointers are 32-bit unsigned words; they are kept as a pair   *)
(* (hi, lo) with value hi * 2^31 + lo, hi in 0..1 and lo in 0..2^31-1.     *)
(***************************************************************************)
MaxLo == 2147483647

U(k) == [hi |-> 0, lo |-> k]

\* `v as usize` for an isize v: the same 32 bits read as unsigned.
AsUsize(v) == IF v >= 0 THEN [hi |-> 0, lo |-> v]
              ELSE [hi |-> 1, lo |-> (v + MaxLo) + 1]

\* `u as isize` for a usize or pointer u: the same 32 bits read as signed.
AsIsize(u) == IF u.hi = 0 THEN u.lo ELSE (u.lo - MaxLo) - 1

\* unsigned a <= b
ULe(a, b) == a.hi < b.hi \/ (a.hi = b.hi /\ a.lo <= b.lo)

\* `v as u8` for a u32 v below 2^31
AsU8(v) == v % 256

\* The unit value () and a returned value, as sequences of length 0 and 1.
Unit == <<>>

Some(v) == <<v>>

(***************************************************************************)
(* screen.rs                                                               *)
(***************************************************************************)
WIDTH == 40

HEIGHT == 20

SIZE == WIDTH * HEIGHT

START_ADDR == 3072

NUM_COLORS == 9

Color == {"Reset", "Black", "Red", "Green", "Yellow", "Blue", "Magenta",
          "Cyan", "White"}

to_ansi(self) ==
    CASE self = "Reset" -> 0
      [] self = "Black" -> 30
      [] self = "Red" -> 31
      [] self = "Green" -> 32
      [] self = "Yellow" -> 33
      [] self = "Blue" -> 34
      [] self = "Magenta" -> 35
      [] self = "Cyan" -> 36
      [] self = "White" -> 37

\* from_index with the fallback arm naming the last colour instead of Reset
from_index_last(value) ==
    CASE value = 0 -> "Reset"
      [] value = 1 -> "Black"
      [] value = 2 -> "Red"
      [] value = 3 -> "Green"
      [] value = 4 -> "Yellow"
      [] value = 5 -> "Blue"
      [] value = 6 -> "Magenta"
      [] value = 7 -> "Cyan"
      [] OTHER -> "White"

from_index(value) ==
    CASE value = 0 -> "Reset"
      [] value = 1 -> "Black"
      [] value = 2 -> "Red"
      [] value = 3 -> "Green"
      [] value = 4 -> "Yellow"
      [] value = 5 -> "Blue"
      [] value = 6 -> "Magenta"
      [] value = 7 -> "Cyan"
      [] value = 8 -> "White"
      [] OTHER -> "Reset"

(***************************************************************************)
(* syscall.rs                                                              *)
(***************************************************************************)
Syscall == {"Print", "Draw", "Reset", "Open", "Close", "Seek", "Read",
            "Write", "Socket"}

\* to_isize with the numbers of Read and Write exchanged
to_isize_rw(self) ==
    CASE self = "Print" -> 1
      [] self = "Draw" -> 2
      [] self = "Reset" -> 0
      [] self = "Open" -> 10
      [] self = "Close" -> 11
      [] self = "Seek" -> 12
      [] self = "Read" -> 14
      [] self = "Write" -> 13
      [] self = "Socket" -> 15

to_isize(self) ==
    CASE self = "Print" -> 1
      [] self = "Draw" -> 2
      [] self = "Reset" -> 0
      [] self = "Open" -> 10
      [] self = "Close" -> 11
      [] self = "Seek" -> 12
      [] self = "Read" -> 13
      [] self = "Write" -> 14
      [] self = "Socket" -> 15

\* One ecall: a7 holds the opcode, a holds a0.. in order; the kernel's
\* answer r comes back in a0 and is the value of the call.
syscall0(nr, r) ==
    [trap |-> [a7 |-> to_isize(nr), a |-> <<>>], ret |-> Some(r)]

syscall1(nr, arg1, r) ==
    [trap |-> [a7 |-> to_isize(nr), a |-> <<arg1>>], ret |-> Some(r)]

syscall2(nr, arg1, arg2, r) ==
    [trap |-> [a7 |-> to_isize(nr), a |-> <<arg1, arg2>>], ret |-> Some(r)]

syscall3(nr, arg1, arg2, arg3, r) ==
    [trap |-> [a7 |-> to_isize(nr), a |-> <<arg1, arg2, arg3>>],
     ret |-> Some(r)]

(***************************************************************************)
(* system.rs.  A slice is [ptr, len, data]: ptr and len are usize words,   *)
(* data is what the memory at [ptr, ptr+len) holds (seen by the kernel     *)
(* only).  Every wrapper takes the kernel's answer r as its last argument. *)
(***************************************************************************)
print(msg, r) ==
    LET s == syscall2("Print", AsIsize(msg.ptr), AsIsize(msg.len), r)
    IN  [trap |-> s.trap, ret |-> Unit]

open(path_name, flags, r) ==
    syscall3("Open", AsIsize(path_name.ptr), AsIsize(path_name.len), flags, r)

socket_(address, r) ==
    syscall2("Socket", AsIsize(address.ptr), AsIsize(address.len), r)

close(fd, r) == syscall1("Close", fd, r)

seek(fd, offset, whence, r) == syscall3("Seek", fd, offset, whence, r)

read(fd, b, r) == syscall3("Read", fd, AsIsize(b.ptr), AsIsize(b.len), r)

\* write_u8_slice passing the length before the address
write_u8_slice_swapped(fd, b, r) ==
    syscall3("Write", fd, AsIsize(b.len), AsIsize(b.ptr), r)

write_u8_slice(fd, b, r) ==
    syscall3("Write", fd, AsIsize(b.ptr), AsIsize(b.len), r)

write_ptr(fd, ptr, count, r) ==
    syscall3("Write", fd, AsIsize(ptr), AsIsize(count), r)

(***************************************************************************)
(* screen.rs: the display is the memory at START_ADDR .. START_ADDR+SIZE-1,*)
(* kept as a function of the offset from START_ADDR.                       *)
(***************************************************************************)
set_cell_by_index(mem, index, color) ==
    [mem EXCEPT ![index] = to_ansi(color)]

\* set_cell with the coordinates exchanged (column-major)
set_cell_colmajor(mem, x, y, color) ==
    set_cell_by_index(mem, x * WIDTH + y, color)

set_cell(mem, x, y, color) == set_cell_by_index(mem, y * WIDTH + x, color)

draw_screen(r) ==
    LET s == syscall0("Draw", r)
    IN  [trap |-> s.trap, ret |-> Unit]

(***************************************************************************)
(* main.rs: static data.  The byte-string literals of main, in order of    *)
(* appearance.  The linker chooses their addresses; the model packs them   *)
(* after the display region and puts buf after them, so that the regions   *)
(* are disjoint.                                                           *)
(***************************************************************************)
Literals ==
    << "Running syscalls.\n", "./file.txt", "open write file failed\n",
       "ClickHouse!", "write to file failed\n", "close write file failed\n",
       "localhost:9008", "failed to bind socket\n", "128\t[]",
       "write to socket failed\n", "no data in socket, try again\n",
       "read from socket failed\n", "read from socket:\n", "\n",
       "close socket failed\n", "open read file failed\n",
       "read from file failed\n", "close read file failed\n",
       "read from file:\n", "Updated pixels.\n", "./image.bin",
       "open write image file failed\n", "write to image file failed\n" >>

RECURSIVE LitOffset(_)
LitOffset(k) == IF k <= 1 THEN 0 ELSE LitOffset(k - 1) + Len(Literals[k - 1])

RodataBase == START_ADDR + SIZE

LitAddr(s) ==
    LET k == CHOOSE j \in 1..Len(Literals) : Literals[j] = s
    IN  RodataBase + LitOffset(k)

\* b"..." used as a path, an address or a message: the text is kept as is.
Lit(s) == [ptr |-> U(LitAddr(s)), len |-> U(Len(s)), data |-> s]

\* the ASCII codes of the two literals that are written as payload
Ascii(s) ==
    CASE s = "ClickHouse!" -> <<67, 108, 105, 99, 107, 72, 111, 117, 115, 101, 33>>
      [] s = "128\t[]" -> <<49, 50, 56, 9, 91, 93>>

\* b"..." used as payload of a write: the bytes are kept as numbers.
Payload(s) == [ptr |-> U(LitAddr(s)), len |-> U(Len(s)), data |-> Ascii(s)]

BufLen == 32

BufAddr == RodataBase + LitOffset(Len(Literals) + 1)

\* let mut buf = [0u8; 32]
ZeroBuf == [k \in 1..BufLen |-> 0]

\* &mut buf
BufMut(b) == [ptr |-> U(BufAddr), len |-> U(BufLen), data |-> b]

\* &buf[..k] for a usize k: Some(slice), or Unit when the bounds check
\* fails (the slice index panics).
SliceTo(b, k) ==
    IF ULe(k, U(BufLen))
    THEN Some([ptr |-> U(BufAddr), len |-> k, data |-> SubSeq(b, 1, k.lo)])
    ELSE Unit

\* the read sentinel "no data in socket"
WouldBlock == -64

\* the trap of print(b"...") on a literal; print drops the kernel's answer
Say(s) == print(Lit(s), 0).trap

\* if cond { print(b"...") }
Diag(cond, s) == IF cond THEN <<Say(s)>> ELSE <<>>

\* the descriptor variables of main
FdVars == {"writing_file", "socket", "reading_file", "image_file"}

\* history: the opcodes of the traps issued with a descriptor variable
\* (the open or socket trap that binds it included)
Log(v, t) == [fdhist EXCEPT ![v] = Append(@, t.a7)]

(***************************************************************************)
(* The kernel behind the trap.  kmode = "any": every trap may return any   *)
(* of a few results (errors, the sentinel, successes) and a read may fill  *)
(* the buffer.  kmode = "fs": an error-free kernel that stores file        *)
(* contents by path; files maps a path to its bytes, fdt maps an open      *)
(* descriptor to its path and position.  A kernel operator constrains the  *)
(* result r and the next kernel state for one trap t; mem is the memory    *)
(* the trap's pointer argument refers to.                                  *)
(***************************************************************************)
MaxFd == 3

FdResults == {-1} \cup (3..MaxFd)

CountResults == {WouldBlock, -1, 0, 11}

StatusResults == {-1, 0}

KResults == {WouldBlock} \cup (-1..BufLen)

HavocData == [k \in 1..BufLen |-> 88]

SockData == [k \in 1..BufLen |-> 90]

SockLens == {0, 6, BufLen}

Min(a, b) == IF a <= b THEN a ELSE b

Max(a, b) == IF a >= b THEN a ELSE b

\* b with its first Len(data) bytes replaced by data
Fill(b, data) == [k \in 1..Len(b) |-> IF k <= Len(data) THEN data[k] ELSE b[k]]

\* old with data written at position pos (0-based, pos <= Len(old))
WriteAt(old, pos, data) ==
    [k \in 1..Max(Len(old), pos + Len(data)) |->
        IF k > pos /\ k <= pos + Len(data) THEN data[k - pos] ELSE old[k]]

NextFd == CHOOSE f \in 3..(3 + Cardinality(DOMAIN fdt)) : f \notin DOMAIN fdt

KOpen(t, mem, r) ==
    IF kmode = "fs"
    THEN /\ r = NextFd
         /\ fdt' = (r :> [path |-> mem, pos |-> 0, sock |-> FALSE]) @@ fdt
         /\ files' = IF mem \in DOMAIN files THEN files
                     ELSE (mem :> <<>>) @@ files
    ELSE /\ r \in FdResults
         /\ UNCHANGED <<files, fdt>>

KSocket(t, mem, r) ==
    IF kmode = "fs"
    THEN /\ r = NextFd
         /\ fdt' = (r :> [path |-> mem, pos |-> 0, sock |-> TRUE]) @@ fdt
         /\ UNCHANGED files
    ELSE /\ r \in FdResults
         /\ UNCHANGED <<files, fdt>>

KClose(t, r) ==
    IF kmode = "fs"
    THEN IF t.a[1] \in DOMAIN fdt
         THEN /\ r = 0
              /\ fdt' = [f \in (DOMAIN fdt) \ {t.a[1]} |-> fdt[f]]
              /\ UNCHANGED files
         ELSE /\ r = -1
              /\ UNCHANGED <<files, fdt>>
    ELSE /\ r \in StatusResults
         /\ UNCHANGED <<files, fdt>>

KWrite(t, mem, r) ==
    IF kmode = "fs"
    THEN IF t.a[1] \notin DOMAIN fdt \/ t.a[3] < 0 \/ t.a[3] > Len(mem)
         THEN /\ r = -1
              /\ UNCHANGED <<files, fdt>>
         ELSE LET d == fdt[t.a[1]]
                  data == SubSeq(mem, 1, t.a[3])
              IN  /\ r = t.a[3]
                  /\ IF d.sock
                     THEN UNCHANGED <<files, fdt>>
                     ELSE /\ files' = [files EXCEPT
                                         ![d.path] = WriteAt(@, d.pos, data)]
                          /\ fdt' = [fdt EXCEPT ![t.a[1]].pos = @ + t.a[3]]
    ELSE /\ r \in CountResults
         /\ UNCHANGED <<files, fdt>>

\* a read into the buffer b (the value of buf before the trap)
KRead(t, b, r) ==
    IF kmode = "fs"
    THEN IF t.a[1] \notin DOMAIN fdt \/ t.a[3] < 0
         THEN /\ r = -1
              /\ buf' = b
              /\ UNCHANGED <<files, fdt>>
         ELSE LET d == fdt[t.a[1]]
              IN  IF d.sock
                  THEN /\ r \in SockLens
                       /\ r <= t.a[3]
                       /\ buf' = Fill(b, SubSeq(SockData, 1, r))
                       /\ UNCHANGED <<files, fdt>>
                  ELSE LET k == Min(t.a[3], Len(files[d.path]) - d.pos)
                       IN  /\ r = k
                           /\ buf' = Fill(b, SubSeq(files[d.path],
                                                    d.pos + 1, d.pos + k))
                           /\ fdt' = [fdt EXCEPT ![t.a[1]].pos = @ + k]
                           /\ UNCHANGED files
    ELSE /\ r \in CountResults
         /\ buf' = IF r > 0 THEN Fill(b, SubSeq(HavocData, 1, Min(r, t.a[3])))
                   ELSE b
         /\ UNCHANGED <<files, fdt>>

(***************************************************************************)
(* main.rs.  One action per statement of the script (a call together with  *)
(* the check of its result); pc names the line of the next statement.      *)
(* out holds the traps the last action issued, in order.                   *)
(***************************************************************************)
fdv == <<writing_file, socket, reading_file, image_file>>

scr == <<display, cellw, lastw, draws>>

kst == <<files, fdt>>

hvars == <<call, ret, nops>>

CountOp(ts, op) == Len(SelectSeq(ts, LAMBDA t : t.a7 = op))

DisplayBytes == [k \in 1..SIZE |-> display[k - 1]]

\* line 16
PrintBanner ==
    /\ pc = "l16"
    /\ out' = <<Say("Running syscalls.\n")>>
    /\ pc' = "l18"
    /\ UNCHANGED <<fdv, n, buf, i, scr, fdhist, kmode, kst, hvars>>

\* lines 18-21
OpenWritingFile ==
    /\ pc = "l18"
    /\ \E r \in KResults :
         LET o == open(Lit("./file.txt"), 0, r)
         IN  /\ KOpen(o.trap, Lit("./file.txt").data, r)
             /\ writing_file' = o.ret[1]
             /\ out' = <<o.trap>>
                         \o Diag(o.ret[1] < 0, "open write file failed\n")
             /\ fdhist' = Log("writing_file", o.trap)
    /\ pc' = "l23"
    /\ UNCHANGED <<socket, reading_file, image_file, n, buf, i, scr, kmode,
                   hvars>>

\* lines 23-26
WriteFile ==
    /\ pc = "l23"
    /\ \E r \in KResults :
         LET o == write_u8_slice(writing_file, Payload("ClickHouse!"), r)
         IN  /\ KWrite(o.trap, Payload("ClickHouse!").data, r)
             /\ out' = <<o.trap>> \o Diag(o.ret[1] < 0, "write to file failed\n")
             /\ fdhist' = Log("writing_file", o.trap)
    /\ pc' = "l28"
    /\ UNCHANGED <<fdv, n, buf, i, scr, kmode, hvars>>

\* lines 28-31
CloseWritingFile ==
    /\ pc = "l28"
    /\ \E r \in KResults :
         LET o == close(writing_file, r)
         IN  /\ KClose(o.trap, r)
             /\ out' = <<o.trap>>
                         \o Diag(o.ret[1] < 0, "close write file failed\n")
             /\ fdhist' = Log("writing_file", o.trap)
    /\ pc' = "l33"
    /\ UNCHANGED <<fdv, n, buf, i, scr, kmode, hvars>>

\* lines 33-36
OpenSocket ==
    /\ pc = "l33"
    /\ \E r \in KResults :
         LET o == socket_(Lit("localhost:9008"), r)
         IN  /\ KSocket(o.trap, Lit("localhost:9008").data, r)
             /\ socket' = o.ret[1]
             /\ out' = <<o.trap>>
                         \o Diag(o.ret[1] < 0, "failed to bind socket\n")
             /\ fdhist' = Log("socket", o.trap)
    /\ pc' = "l38"
    /\ UNCHANGED <<writing_file, reading_file, image_file, n, buf, i, scr,
                   kmode, hvars>>

\* lines 38-41
WriteSocket ==
    /\ pc = "l38"
    /\ \E r \in KResults :
         LET o == write_u8_slice(socket, Payload("128\t[]"), r)
         IN  /\ KWrite(o.trap, Payload("128\t[]").data, r)
             /\ out' = <<o.trap>>
                         \o Diag(o.ret[1] < 0, "write to socket failed\n")
             /\ fdhist' = Log("socket", o.trap)
    /\ pc' = "l43"
    /\ UNCHANGED <<fdv, n, buf, i, scr, kmode, hvars>>

\* ReadSocket testing the sign before the sentinel
ReadSocket_signfirst ==
    /\ pc = "l43"
    /\ \E r \in KResults :
         LET o == read(socket, BufMut(ZeroBuf), r)
         IN  /\ KRead(o.trap, ZeroBuf, r)
             /\ n' = o.ret[1]
             /\ out' = <<o.trap>> \o
                   (IF o.ret[1] < 0
                    THEN <<Say("read from socket failed\n")>>
                    ELSE IF o.ret[1] = WouldBlock
                         THEN <<Say("no data in socket, try again\n")>>
                         ELSE <<>>)
             /\ fdhist' = Log("socket", o.trap)
    /\ pc' = "l51"
    /\ UNCHANGED <<fdv, i, scr, kmode, hvars>>

\* lines 43-49
ReadSocket ==
    /\ pc = "l43"
    /\ \E r \in KResults :
         LET o == read(socket, BufMut(ZeroBuf), r)
         IN  /\ KRead(o.trap, ZeroBuf, r)
             /\ n' = o.ret[1]
             /\ out' = <<o.trap>> \o
                   (IF o.ret[1] = WouldBlock
                    THEN <<Say("no data in socket, try again\n")>>
                    ELSE IF o.ret[1] < 0
                         THEN <<Say("read from socket failed\n")>>
                         ELSE <<>>)
             /\ fdhist' = Log("socket", o.trap)
    /\ pc' = "l51"
    /\ UNCHANGED <<fdv, i, scr, kmode, hvars>>

\* lines 51-53; the slice index of line 52 panics when n as usize > 32
PrintSocketData ==
    /\ pc = "l51"
    /\ LET s == SliceTo(buf, AsUsize(n))
       IN  IF s = Unit
           THEN /\ out' = <<Say("read from socket:\n")>>
                /\ pc' = "panic"
           ELSE /\ out' = <<Say("read from socket:\n"), print(s[1], 0).trap,
                            Say("\n")>>
                /\ pc' = "l55"
    /\ UNCHANGED <<fdv, n, buf, i, scr, fdhist, kmode, kst, hvars>>

\* lines 55-58
CloseSocket ==
    /\ pc = "l55"
    /\ \E r \in KResults :
         LET o == close(socket, r)
         IN  /\ KClose(o.trap, r)
             /\ out' = <<o.trap>> \o Diag(o.ret[1] < 0, "close socket failed\n")
             /\ fdhist' = Log("socket", o.trap)
    /\ pc' = "l60"
    /\ UNCHANGED <<fdv, n, buf, i, scr, kmode, hvars>>

\* lines 60-63
OpenReadingFile ==
    /\ pc = "l60"
    /\ \E r \in KResults :
         LET o == open(Lit("./file.txt"), 0, r)
         IN  /\ KOpen(o.trap, Lit("./file.txt").data, r)
             /\ reading_file' = o.ret[1]
             /\ out' = <<o.trap>>
                         \o Diag(o.ret[1] < 0, "open read file failed\n")
             /\ fdhist' = Log("reading_file", o.trap)
    /\ pc' = "l65"
    /\ UNCHANGED <<writing_file, socket, image_file, n, buf, i, scr, kmode,
                   hvars>>

\* ReadFile reading from the descriptor variable closed at line 28
ReadFile_stale ==
    /\ pc = "l65"
    /\ \E r \in KResults :
         LET o == read(writing_file, BufMut(buf), r)
         IN  /\ KRead(o.trap, buf, r)
             /\ n' = o.ret[1]
             /\ out' = <<o.trap>>
                         \o Diag(o.ret[1] < 0, "read from file failed\n")
             /\ fdhist' = Log("writing_file", o.trap)
    /\ pc' = "l70"
    /\ UNCHANGED <<fdv, i, scr, kmode, hvars>>

\* lines 65-68
ReadFile ==
    /\ pc = "l65"
    /\ \E r \in KResults :
         LET o == read(reading_file, BufMut(buf), r)
         IN  /\ KRead(o.trap, buf, r)
             /\ n' = o.ret[1]
             /\ out' = <<o.trap>>
                         \o Diag(o.ret[1] < 0, "read from file failed\n")
             /\ fdhist' = Log("reading_file", o.trap)
    /\ pc' = "l70"
    /\ UNCHANGED <<fdv, i, scr, kmode, hvars>>

\* lines 70-73
CloseReadingFile ==
    /\ pc = "l70"
    /\ \E r \in KResults :
         LET o == close(reading_file, r)
         IN  /\ KClose(o.trap, r)
             /\ out' = <<o.trap>>
                         \o Diag(o.ret[1] < 0, "close read file failed\n")
             /\ fdhist' = Log("reading_file", o.trap)
    /\ pc' = "l75"
    /\ UNCHANGED <<fdv, n, buf, i, scr, kmode, hvars>>

\* lines 75-78; the slice index of line 76 panics when n as usize > 32
PrintFileData ==
    /\ pc = "l75"
    /\ LET s == SliceTo(buf, AsUsize(n))
       IN  IF s = Unit
           THEN /\ out' = <<Say("read from file:\n")>>
                /\ pc' = "panic"
                /\ i' = i
           ELSE /\ out' = <<Say("read from file:\n"), print(s[1], 0).trap>>
                /\ pc' = "l79"
                /\ i' = 0
    /\ UNCHANGED <<fdv, n, buf, scr, fdhist, kmode, kst, hvars>>

\* lines 79-80: the loop test holds and one cell is written
SetCell ==
    /\ pc = "l79"
    /\ i < SIZE
    /\ LET index == i
       IN  /\ display' = set_cell_by_index(display, index,
                                           from_index(AsU8(i) % NUM_COLORS))
           /\ lastw' = index
    /\ cellw' = cellw + 1
    /\ out' = <<>>
    /\ pc' = "l81"
    /\ UNCHANGED <<fdv, n, buf, i, draws, fdhist, kmode, kst, hvars>>

\* lines 81-82
Draw ==
    /\ pc = "l81"
    /\ out' = <<draw_screen(0).trap>>
    /\ draws' = draws + CountOp(out', to_isize("Draw"))
    /\ i' = i + 1
    /\ pc' = "l79"
    /\ UNCHANGED <<fdv, n, buf, display, cellw, lastw, fdhist, kmode, kst,
                   hvars>>

\* lines 79, 84: the loop test fails
ExitLoop ==
    /\ pc = "l79"
    /\ ~(i < SIZE)
    /\ out' = <<Say("Updated pixels.\n")>>
    /\ pc' = "l86"
    /\ UNCHANGED <<fdv, n, buf, i, scr, fdhist, kmode, kst, hvars>>

\* lines 86-89
OpenImage ==
    /\ pc = "l86"
    /\ \E r \in KResults :
         LET o == open(Lit("./image.bin"), 0, r)
         IN  /\ KOpen(o.trap, Lit("./image.bin").data, r)
             /\ image_file' = o.ret[1]
             /\ out' = <<o.trap>>
                         \o Diag(o.ret[1] < 0, "open write image file failed\n")
             /\ fdhist' = Log("image_file", o.trap)
    /\ pc' = "l91"
    /\ UNCHANGED <<writing_file, socket, reading_file, n, buf, i, scr, kmode,
                   hvars>>

\* lines 91-94
WriteImage ==
    /\ pc = "l91"
    /\ \E r \in KResults \cup {SIZE} :
         LET o == write_ptr(image_file, U(START_ADDR), U(SIZE), r)
         IN  /\ KWrite(o.trap, DisplayBytes, r)
             /\ out' = <<o.trap>>
                         \o Diag(o.ret[1] < 0, "write to image file failed\n")
             /\ fdhist' = Log("image_file", o.trap)
    /\ pc' = "l96"
    /\ UNCHANGED <<fdv, n, buf, i, scr, kmode, hvars>>

\* lines 96-99
CloseImage ==
    /\ pc = "l96"
    /\ \E r \in KResults :
         LET o == close(image_file, r)
         IN  /\ KClose(o.trap, r)
             /\ out' = <<o.trap>>
                         \o Diag(o.ret[1] < 0, "close write file failed\n")
             /\ fdhist' = Log("image_file", o.trap)
    /\ pc' = "l101"
    /\ UNCHANGED <<fdv, n, buf, i, scr, kmode, hvars>>

\* line 101: loop {}
Halt ==
    /\ pc = "l101"
    /\ UNCHANGED vars

\* a panic handler that restarts the script instead of idling
panic_restart ==
    /\ pc = "panic"
    /\ pc' = "l16"
    /\ UNCHANGED <<fdv, n, buf, i, scr, out, fdhist, kmode, kst, hvars>>

\* system.rs, the panic handler: loop {}
panic ==
    /\ pc = "panic"
    /\ UNCHANGED vars

Terminal == {"l101", "panic"}

\* the stage of the script a line belongs to
StageOf(l) ==
    CASE l \in {"l16", "l18", "l23", "l28"} -> 1
      [] l \in {"l33", "l38", "l43", "l51", "l55"} -> 2
      [] l \in {"l60", "l65", "l70", "l75"} -> 3
      [] l \in {"l79", "l81"} -> 4
      [] l \in {"l84", "l86", "l91", "l96"} -> 5
      [] l \in {"l101", "panic"} -> 6
      [] OTHER -> 0

\* no wrapper has been called
NoCall == [f |-> "none", fd |-> 0, a |-> 0, b |-> 0, s |-> [ptr |-> U(0), len |-> U(0), data |-> <<>>],
           x |-> 0, y |-> 0, color |-> "Reset", kret |-> 0]

InitCommon ==
    /\ writing_file = 0
    /\ socket = 0
    /\ reading_file = 0
    /\ image_file = 0
    /\ n = 0
    /\ buf = ZeroBuf
    /\ i = 0
    /\ out = <<>>
    /\ fdhist = [v \in FdVars |-> <<>>]
    /\ cellw = 0
    /\ lastw = -1
    /\ draws = 0
    /\ fdt = <<>>
    /\ call = NoCall
    /\ ret = Unit
    /\ nops = 0

\* main started under an arbitrary kernel
Init ==
    /\ InitCommon
    /\ pc = "l16"
    /\ kmode = "any"
    /\ display = [k \in 0..(SIZE - 1) |-> 0]
    /\ files = <<>>

Main ==
    \/ PrintBanner
    \/ OpenWritingFile
    \/ WriteFile
    \/ CloseWritingFile
    \/ OpenSocket
    \/ WriteSocket
    \/ ReadSocket
    \/ PrintSocketData
    \/ CloseSocket
    \/ OpenReadingFile
    \/ ReadFile
    \/ CloseReadingFile
    \/ PrintFileData
    \/ SetCell
    \/ Draw
    \/ ExitLoop
    \/ OpenImage
    \/ WriteImage
    \/ CloseImage
    \/ Halt

Next == Main \/ panic

Spec == Init /\ [][Next]_vars

\* the script runs on: a trap returns and the next instruction executes
FairSpec == Spec /\ WF_vars(Next)

\* main started under the error-free file store; ./file.txt may be absent,
\* empty, or hold a few older bytes
InitFS ==
    /\ InitCommon
    /\ pc = "l16"
    /\ kmode = "fs"
    /\ display = [k \in 0..(SIZE - 1) |-> 0]
    /\ files \in {<<>>, ("./file.txt" :> <<>>), ("./file.txt" :> <<1, 2, 3>>)}

\* the script never panics under the file store, so the handler is left out
SpecFS == InitFS /\ [][Main]_vars

(***************************************************************************)
(* The gateway, the system operations and the display called one at a time *)
(* with arguments and kernel answers drawn from small sets.  call records  *)
(* the call, out the traps it issued, ret what it returned.                *)
(***************************************************************************)
MaxOps == 1

Ptrs == {U(0), U(START_ADDR), [hi |-> 1, lo |-> 0], [hi |-> 1, lo |-> MaxLo]}

Lens == {U(0), U(11), U(BufLen)}

Slices == {[ptr |-> p, len |-> l, data |-> <<>>] : p \in Ptrs, l \in Lens}

Counts == {U(0), U(SIZE), [hi |-> 1, lo |-> 0]}

Fds == {-1, 3}

KRets == {WouldBlock, -1, 0, 11}

Words == {-1, 0, 2}

Xs == {0, 1, WIDTH - 1}

Ys == {0, 1, HEIGHT - 1}

Indices == {0, WIDTH + 1, SIZE - 1}

SomeColors == {"Reset", "Red", "White"}

\* one call c that issued the trap of o and returned o.ret
Called(c, o) ==
    /\ pc = "ops"
    /\ nops < MaxOps
    /\ call' = c
    /\ out' = <<o.trap>>
    /\ ret' = o.ret
    /\ nops' = nops + 1
    /\ UNCHANGED <<pc, fdv, n, buf, i, scr, fdhist, kmode, kst>>

OpPrint ==
    \E s \in Slices, r \in KRets :
        Called([NoCall EXCEPT !.f = "print", !.s = s, !.kret = r], print(s, r))

OpOpen ==
    \E s \in Slices, b \in Words, r \in KRets :
        Called([NoCall EXCEPT !.f = "open", !.s = s, !.b = b, !.kret = r],
               open(s, b, r))

OpSocket ==
    \E s \in Slices, r \in KRets :
        Called([NoCall EXCEPT !.f = "socket", !.s = s, !.kret = r],
               socket_(s, r))

OpClose ==
    \E fd \in Fds, r \in KRets :
        Called([NoCall EXCEPT !.f = "close", !.fd = fd, !.kret = r],
               close(fd, r))

OpSeek ==
    \E fd \in Fds, a \in Words, b \in Words, r \in KRets :
        Called([NoCall EXCEPT !.f = "seek", !.fd = fd, !.a = a, !.b = b,
                              !.kret = r],
               seek(fd, a, b, r))

OpRead ==
    \E fd \in Fds, s \in Slices, r \in KRets :
        Called([NoCall EXCEPT !.f = "read", !.fd = fd, !.s = s, !.kret = r],
               read(fd, s, r))

OpWriteSlice ==
    \E fd \in Fds, s \in Slices, r \in KRets :
        Called([NoCall EXCEPT !.f = "write_u8_slice", !.fd = fd, !.s = s,
                              !.kret = r],
               write_u8_slice(fd, s, r))

OpWritePtr ==
    \E fd \in Fds, p \in Ptrs, c \in Counts, r \in KRets :
        Called([NoCall EXCEPT !.f = "write_ptr", !.fd = fd,
                              !.s = [ptr |-> p, len |-> c, data |-> <<>>],
                              !.kret = r],
               write_ptr(fd, p, c, r))

OpDraw ==
    \E r \in KRets :
        Called([NoCall EXCEPT !.f = "draw_screen", !.kret = r], draw_screen(r))

OpSetCell ==
    /\ pc = "ops"
    /\ nops < MaxOps
    /\ \E x \in Xs, y \in Ys, c \in SomeColors :
         /\ call' = [NoCall EXCEPT !.f = "set_cell", !.x = x, !.y = y,
                                   !.color = c]
         /\ display' = set_cell(display, x, y, c)
    /\ out' = <<>>
    /\ ret' = Unit
    /\ nops' = nops + 1
    /\ UNCHANGED <<pc, fdv, n, buf, i, cellw, lastw, draws, fdhist, kmode,
                   kst>>

OpSetCellByIndex ==
    /\ pc = "ops"
    /\ nops < MaxOps
    /\ \E x \in Indices, c \in SomeColors :
         /\ call' = [NoCall EXCEPT !.f = "set_cell_by_index", !.x = x,
                                   !.color = c]
         /\ display' = set_cell_by_index(display, x, c)
    /\ out' = <<>>
    /\ ret' = Unit
    /\ nops' = nops + 1
    /\ UNCHANGED <<pc, fdv, n, buf, i, cellw, lastw, draws, fdhist, kmode,
                   kst>>

\* Color::from_index(v).to_ansi() for a u8 v
OpColor ==
    /\ pc = "ops"
    /\ nops < MaxOps
    /\ \E v \in 0..255 :
         /\ call' = [NoCall EXCEPT !.f = "color", !.x = v]
         /\ ret' = Some(to_ansi(from_index(v)))
    /\ out' = <<>>
    /\ nops' = nops + 1
    /\ UNCHANGED <<pc, fdv, n, buf, i, scr, fdhist, kmode, kst>>

InitOps ==
    /\ InitCommon
    /\ pc = "ops"
    /\ kmode = "any"
    /\ display \in {[k \in 0..(SIZE - 1) |-> 0], [k \in 0..(SIZE - 1) |-> 37]}
    /\ files = <<>>

NextOps ==
    \/ OpPrint
    \/ OpOpen
    \/ OpSocket
    \/ OpClose
    \/ OpSeek
    \/ OpRead
    \/ OpWriteSlice
    \/ OpWritePtr
    \/ OpDraw
    \/ OpSetCell
    \/ OpSetCellByIndex
    \/ OpColor

SpecOps == InitOps /\ [][NextOps]_vars

\* the script and the single calls side by side
SpecAll == (Init \/ InitOps) /\ [][Next \/ NextOps]_vars

(***************************************************************************)
(* Properties                                                              *)
(***************************************************************************)

\* C1: whatever the kernel returns, main runs all of its stages and ends in
\* the final halt of line 101: when it has stopped, it has stopped there,
\* with every descriptor variable bound and every cell written.
C1_RunsAllStages ==
    pc \in Terminal =>
        /\ pc = "l101"
        /\ \A v \in FdVars : fdhist[v] # <<>>
        /\ cellw = SIZE

\* C2: when the display has been dumped to ./image.bin (line 91), the dump
\* is the SIZE bytes at START_ADDR and the byte at every position j is the
\* ANSI code of from_index(j % 9).
C2_DumpIsIndexMod9 ==
    pc = "l96" =>
        /\ out[1] = [a7 |-> 14, a |-> <<image_file, START_ADDR, SIZE>>]
        /\ \A j \in 0..(SIZE - 1) : display[j] = to_ansi(from_index(j % 9))

\* C3: when main has stopped, every descriptor variable that was bound by a
\* successful open or socket call has been passed to close exactly once.
C3_ClosedExactlyOnce ==
    pc \in Terminal =>
        \A v \in FdVars :
            LET fd == CASE v = "writing_file" -> writing_file
                        [] v = "socket" -> socket
                        [] v = "reading_file" -> reading_file
                        [] v = "image_file" -> image_file
            IN  (fdhist[v] # <<>> /\ fd >= 0) =>
                    Len(SelectSeq(fdhist[v], LAMBDA e : e = 11)) = 1

\* C4: from_index(v).to_ansi() is the v-th entry of the table
\* (0,30,31,32,33,34,35,36,37) for v < 9 and 0 for every other u8 v.
C4_ColorTable ==
    call.f = "color" =>
        ret = Some(IF call.x < 9
                   THEN <<0, 30, 31, 32, 33, 34, 35, 36, 37>>[call.x + 1]
                   ELSE 0)

C4_Witness == call.f = "color" /\ call.x = 200 /\ ret = Some(0)

\* C5: under the error-free file store, the read of the reopened ./file.txt
\* (line 65) returns 11 and leaves "ClickHouse!" in the first 11 bytes of
\* buf, whatever the socket read left there.
C5_RoundTrip ==
    pc = "l70" =>
        /\ n = 11
        /\ SubSeq(buf, 1, 11)
             = <<67, 108, 105, 99, 107, 72, 111, 117, 115, 101, 33>>

C5_Witness == pc = "l70" /\ n = 11 /\ buf[1] = 67 /\ buf[12] = 90

\* C6 as stated: every wrapper issues exactly one trap with the opcode of
\* its operation, the arguments in ABI order with each slice as (address,
\* length), and returns the kernel's result unmodified -- print included.
C6_AllWrappersReturnResult ==
    call.f \in {"print", "open", "socket", "close", "seek", "read",
                "write_u8_slice", "write_ptr"} =>
        ret = Some(call.kret)

\* C6 amended: every wrapper issues exactly one trap with the opcode of its
\* operation (print 1, draw 2, open 10, close 11, seek 12, read 13, write 14,
\* socket 15), the arguments in ABI order with each slice as (address,
\* length); open, socket, close, seek, read, write_u8_slice and write_ptr
\* return the kernel's result unmodified, print returns nothing; and the
\* opcode numbers are pairwise distinct.
C6_Wrappers ==
    /\ \A a, b \in Syscall : to_isize(a) = to_isize(b) => a = b
    /\ call.f \in {"print", "open", "socket", "close", "seek", "read",
                   "write_u8_slice", "write_ptr", "draw_screen"} =>
         /\ Len(out) = 1
         /\ LET t == out[1]
                c == call
            IN  CASE c.f = "print" ->
                       /\ t.a7 = 1 /\ Len(t.a) = 2
                       /\ AsUsize(t.a[1]) = c.s.ptr /\ AsUsize(t.a[2]) = c.s.len
                       /\ ret = Unit
                  [] c.f = "draw_screen" ->
                       t.a7 = 2 /\ t.a = <<>> /\ ret = Unit
                  [] c.f = "open" ->
                       /\ t.a7 = 10 /\ Len(t.a) = 3
                       /\ AsUsize(t.a[1]) = c.s.ptr /\ AsUsize(t.a[2]) = c.s.len
                       /\ t.a[3] = c.b
                       /\ ret = Some(c.kret)
                  [] c.f = "socket" ->
                       /\ t.a7 = 15 /\ Len(t.a) = 2
                       /\ AsUsize(t.a[1]) = c.s.ptr /\ AsUsize(t.a[2]) = c.s.len
                       /\ ret = Some(c.kret)
                  [] c.f = "close" ->
                       t.a7 = 11 /\ t.a = <<c.fd>> /\ ret = Some(c.kret)
                  [] c.f = "seek" ->
                       t.a7 = 12 /\ t.a = <<c.fd, c.a, c.b>> /\ ret = Some(c.kret)
                  [] c.f = "read" ->
                       /\ t.a7 = 13 /\ Len(t.a) = 3 /\ t.a[1] = c.fd
                       /\ AsUsize(t.a[2]) = c.s.ptr /\ AsUsize(t.a[3]) = c.s.len
                       /\ ret = Some(c.kret)
                  [] c.f \in {"write_u8_slice", "write_ptr"} ->
                       /\ t.a7 = 14 /\ Len(t.a) = 3 /\ t.a[1] = c.fd
                       /\ AsUsize(t.a[2]) = c.s.ptr /\ AsUsize(t.a[3]) = c.s.len
                       /\ ret = Some(c.kret)

C6_Witness == call.f = "print" /\ call.kret = WouldBlock /\ ret = Unit

\* C7: every run of main ends in a terminal state (line 101 or the panic
\* handler) and stays there; there no trap is issued and no cell is written;
\* and the stage of the script never decreases.
C7_Terminates ==
    /\ <>[](pc \in Terminal)
    /\ [][(pc \in Terminal) =>
            (UNCHANGED <<pc, out, display, cellw, draws, fdhist>>)]_vars
    /\ [][(StageOf(pc') >= StageOf(pc))]_vars

C7_Witness == pc = "l101" /\ draws = SIZE

\* C8: a descriptor variable is bound by one open or socket trap, then used,
\* then closed; after its close no read, write, seek or close is issued with
\* it.
C8_NoUseAfterClose ==
    \A v \in FdVars :
        LET h == fdhist[v]
        IN  \A k \in 1..Len(h) :
                /\ (h[k] \in {10, 15}) <=> (k = 1)
                /\ h[k] = 11 => k = Len(h)

C8_Witness == pc = "l101" /\ fdhist["socket"] = <<15, 14, 13, 11>>

\* C9: the socket read is issued once and never again, and its result n
\* selects the diagnostic: only "no data in socket, try again" for -64, only
\* "read from socket failed" for another negative n, none for n >= 0.
C9_SocketReadOnce ==
    LET reads == Len(SelectSeq(fdhist["socket"], LAMBDA e : e = 13))
        said == SelectSeq(out, LAMBDA t : t.a7 = 1)
    IN  /\ reads = (IF pc \in {"l16", "l18", "l23", "l28", "l33", "l38", "l43"}
                    THEN 0 ELSE 1)
        /\ pc = "l51" =>
             said = (IF n = -64 THEN <<Say("no data in socket, try again\n")>>
                     ELSE IF n < 0 THEN <<Say("read from socket failed\n")>>
                     ELSE <<>>)

C9_Witness == pc = "l51" /\ n = -64 /\ Len(out) = 2

\* C10: set_cell(x, y, color) writes color.to_ansi() at offset y*WIDTH + x,
\* as set_cell_by_index(y*WIDTH + x, color) does, and changes no other cell;
\* draw_screen issues one redraw trap (opcode 2, no arguments) and changes
\* no cell; the fill loop of main writes offsets 0, 1, .., SIZE-1 in this
\* order, once each, every write followed by one redraw trap.
C10_DisplayWrites ==
    /\ [][(call'.f = "set_cell" /\ nops' # nops) =>
           (LET off == call'.y * WIDTH + call'.x
            IN  /\ display'[off] = to_ansi(call'.color)
                /\ \A j \in (DOMAIN display) \ {off} : display'[j] = display[j]
                /\ display' = set_cell_by_index(display, off, call'.color))]_vars
    /\ [][((call'.f = "draw_screen" /\ nops' # nops) \/ draws' # draws) =>
            (out' = <<[a7 |-> 2, a |-> <<>>]>> /\ display' = display)]_vars
    /\ [][(cellw' # cellw) =>
           (/\ cellw' = cellw + 1
            /\ lastw' = cellw
            /\ lastw' \in 0..(SIZE - 1)
            /\ \A j \in (DOMAIN display) \ {lastw'} : display'[j] = display[j]
            /\ pc' = "l81")]_vars
    /\ [](/\ pc = "l81" => (cellw = draws + 1 /\ cellw = i + 1)
          /\ pc = "l79" => (cellw = draws /\ cellw = i)
          /\ pc \in {"l86", "l91", "l96", "l101"} =>
               (cellw = SIZE /\ draws = SIZE))

C10_Witness == pc = "l86" /\ cellw = SIZE /\ lastw = SIZE - 1 /\ draws = SIZE

====
